---- MODULE Spec2Model ----
(***************************************************************************)
(* Verification model of the gamma-ray hands-on notebooks:                 *)
(*   0_data_exploration.ipynb      ON/OFF counting and WStat significance  *)
(*   1_one_dimensional_data_reduction.ipynb   the three reduction loops    *)
(*   2_one_dimensional_spectrum_fit.ipynb     load, mask, model, fit       *)
(*   3_three_dimensional_analysis.ipynb       fits on copies, frozen bkg   *)
(* Each notebook is a sequence of cells run top to bottom; the kernel's    *)
(* variables are the state.  Real-valued quantities are kept exact: a      *)
(* likelihood ratio is a pair <<numerator, denominator>> of naturals and   *)
(* fluxes, exposures and dispersion weights are small naturals.            *)
(***************************************************************************)
EXTENDS Integers, Sequences, FiniteSets, TLC

VARIABLES
    run,            \* notebook 0: the inputs and the result of each significance evaluation
    nb0,            \* notebook 0: the kernel's variables of the MAGIC sky map and regions
    pc,             \* notebooks 1 and 2: the cell and the statement being executed
    observations,   \* the data stores: instrument -> sequence of observations (DL3 files)
    dataset_empty,  \* notebook 1: the template dataset of the current configuration
    dataset,        \* notebook 1: the loop variable dataset / dataset_on_off
    datasets_nb1,   \* notebook 1: datasets_hess, datasets_magic, datasets_lst
    first_run,      \* notebook 1: what a reduction cell produced before it was run again
    files,          \* results/spectra/<instrument>/pha_obs_<obs_id>.fits
    loaded,         \* notebook 2: the loop variable dataset of the loading cell
    datasets_nb2,   \* notebook 2: datasets_hess, datasets_magic, datasets_lst
    models,         \* notebooks 2 and 3: the model objects, by identity
    fit,            \* notebooks 2 and 3: the optimizer of the running Fit.run
    results,        \* notebooks 2 and 3: the Fit Results returned so far
    dataset_nb3,    \* notebook 3: the simulated dataset and the models assigned to it
    models_fit,     \* notebook 3: models_fit_1 and models_fit_2
    fpe,            \* notebook 2: the running FluxPointsEstimator.run
    flux_points_lst \* notebook 2: the flux points it returned

nb1Vars == <<observations, dataset_empty, dataset, datasets_nb1, first_run>>

nb2Vars == <<loaded, datasets_nb2, models, fit, results>>

nb3Vars == <<dataset_nb3, models_fit>>

fpeVars == <<fpe, flux_points_lst>>

pipeVars == <<pc, nb1Vars, files, nb2Vars, nb3Vars, fpeVars>>

vars == <<run, nb0, pipeVars>>

(***************************************************************************)
(* Bounds                                                                   *)
(***************************************************************************)
\* largest N_on and N_off drawn for a significance evaluation
MaxCount == 3
\* largest number of events the MAGIC event list of notebook 0 holds
MaxEvents == 3
\* number of observations taken from each data store
MaxObs == 2
\* number of steps the optimizer of a fit may take
MaxIter == 2

(***************************************************************************)
(* Exact arithmetic helpers                                                 *)
(***************************************************************************)
RECURSIVE Pow(_, _)
\* b^e with 0^0 = 1 (the convention n ln n -> 0 for n = 0 of the statistic)
Pow(b, e) == IF e = 0 THEN 1 ELSE b * Pow(b, e - 1)

Abs(x) == IF x < 0 THEN -x ELSE x

RECURSIVE RatLess(_, _, _, _)
\* n1/d1 < n2/d2 for naturals with d1, d2 > 0, by continued fractions, so that
\* no product of two large numbers is ever formed
RatLess(n1, d1, n2, d2) ==
    LET q1 == n1 \div d1
        q2 == n2 \div d2
        r1 == n1 % d1
        r2 == n2 % d2
    IN  IF q1 # q2 THEN q1 < q2
        ELSE IF r2 = 0 THEN FALSE
        ELSE IF r1 = 0 THEN TRUE
        ELSE RatLess(d2, r2, d1, r1)

RatLeq(n1, d1, n2, d2) == ~RatLess(n2, d2, n1, d1)

(***************************************************************************)
(* Notebook 0: WStat significance of (N_on, N_off, alpha)                   *)
(*                                                                         *)
(* The likelihood of notebook 2,                                            *)
(*     L = Pois(g + b; N_on) Pois(b / alpha; N_off),                        *)
(* has its maximum at g + b = N_on, b / alpha = N_off, and under the null   *)
(* hypothesis g = 0 at b = alpha (N_on + N_off) / (1 + alpha).  The test    *)
(* statistic is TS = 2 ln(L_max / L_null), hence with alpha = p / q         *)
(*   exp(TS / 2) = ((p+q) N_on)^N_on ((p+q) N_off)^N_off                    *)
(*                 / ( (p (N_on+N_off))^N_on (q (N_on+N_off))^N_off ).      *)
(* TS is kept as this exact ratio; TS1 <= TS2 iff ratio1 <= ratio2 and      *)
(* TS >= 0 iff ratio >= 1.                                                  *)
(***************************************************************************)
\* the values of alpha = p / q an evaluation is given (the notebook passes 1)
Alphas == {<<1, 2>>, <<1, 1>>, <<2, 1>>}

\* the mutant: the OFF term of the log-likelihood ratio is dropped
WStatOnTermOnly(n_on, n_off, p, q) ==
    [num |-> Pow((p + q) * n_on, n_on),
     den |-> Pow(p * (n_on + n_off), n_on)]

WStatCountsStatistic(n_on, n_off, p, q) ==
    [num |-> Pow((p + q) * n_on, n_on) * Pow((p + q) * n_off, n_off),
     den |-> Pow(p * (n_on + n_off), n_on) * Pow(q * (n_on + n_off), n_off)]

\* |N_on - alpha N_off| of one evaluation, times q (a natural)
AbsExcessQ(r) == Abs(r.q * r.n_on - r.p * r.n_off)

\* sign of the excess N_on - alpha N_off: -1, 0 or 1
ExcessSign(r) ==
    LET e == r.q * r.n_on - r.p * r.n_off
    IN  IF e > 0 THEN 1 ELSE IF e < 0 THEN -1 ELSE 0

(***************************************************************************)
(* Notebook 1: configuration of the three reductions                       *)
(*                                                                         *)
(* Energy axes are coarsened to one bin per decade; energies are in GeV.    *)
(***************************************************************************)
Instruments == <<"hess", "magic", "lst">>

InstSet == {"hess", "magic", "lst"}

\* obs_ids of the Crab observations of each data store, as notebook 2 lists them
AllObsIds ==
    [hess  |-> <<23523, 23526, 23559, 23592>>,
     magic |-> <<5029747, 5029748>>,
     lst   |-> <<7253, 7254, 7255, 7256, 7274, 7275, 7276, 7277>>]

Min(a, b) == IF a < b THEN a ELSE b

ObsIds(inst) == SubSeq(AllObsIds[inst], 1, Min(MaxObs, Len(AllObsIds[inst])))

\* energy_axis: edges of the reconstructed-energy bins
EnergyAxis(inst) ==
    IF inst = "hess" THEN <<100, 1000, 10000, 40000>>
    ELSE <<10, 100, 1000, 10000, 100000>>

\* energy_axis_true: edges of the true-energy bins
EnergyAxisTrue(inst) ==
    IF inst = "hess" THEN <<50, 100, 1000, 10000, 100000>>
    ELSE <<10, 100, 1000, 10000, 100000>>

NBin(axis) == Len(axis) - 1

\* does the reduction loop of this instrument run the safe-mask maker
HasSafeMask(inst) == inst = "hess"

\* the instrument whose configuration cell defined the template and the makers
\* a loop uses: the LST loop reuses the MAGIC dataset_empty and makers
ConfigOf(inst) == IF inst = "lst" THEN "magic" ELSE inst

NoDataset == [name |-> "none"]

\* the zero array of n bins
Zeros(n) == [i \in 1..n |-> 0]

AllTrue(n) == [i \in 1..n |-> TRUE]

\* SpectrumDataset.create(geom=geom, energy_axis_true=energy_axis_true)
SpectrumDatasetCreate(inst) ==
    [name       |-> "empty",
     counts     |-> Zeros(NBin(EnergyAxis(inst))),
     counts_off |-> <<>>,
     acceptance |-> 0,
     acceptance_off |-> 0,
     exposure   |-> Zeros(NBin(EnergyAxisTrue(inst))),
     edisp      |-> [j \in 1..NBin(EnergyAxisTrue(inst)) |-> Zeros(NBin(EnergyAxis(inst)))],
     mask_safe  |-> AllTrue(NBin(EnergyAxis(inst))),
     mask_fit   |-> <<>>,
     models     |-> <<>>]

\* dataset_empty.copy(name=...): a new dataset with the same arrays
DatasetCopy(d, name) == [d EXCEPT !.name = name]

(***************************************************************************)
(* The observations: what a DL3 file holds, drawn from a small set          *)
(***************************************************************************)
\* the kinds of observation a data store may hold
ObsKinds == {1, 2}

\* events of an observation in the ON region, per reconstructed-energy bin
OnEvents(kind, n) == [i \in 1..n |-> (i + kind + 1) % 3]

\* events of an observation in all OFF regions together
OffEvents(kind, n) == [i \in 1..n |-> (i * kind) % 2]

\* effective area times livetime per true-energy bin
Exposure(kind, n) ==
    [j \in 1..n |-> IF kind = 1 THEN (IF j = n THEN 14 ELSE Min(j - 1, 1))
                    ELSE 20 + j]

\* energy dispersion: weight (in quarters) of true bin j in reconstructed bin i
Edisp(kind, nt, nr) ==
    [j \in 1..nt |-> [i \in 1..nr |->
        IF i = j THEN 2 ELSE IF Abs(i - j) = 1 /\ kind = 2 THEN 1 ELSE 0]]

\* number of OFF regions found: as many as fit for the default finder of the
\* H.E.S.S. configuration, WobbleRegionsFinder(n_off_regions=1) otherwise
NOffRegions(config, kind) == IF config = "hess" THEN 1 + kind ELSE 1

\* the data stores an instrument may have: the first two observations of any kind,
\* the later ones of the kind of the second
ObservationsOf(inst) ==
    {[k \in 1..Len(ObsIds(inst)) |->
         [obs_id |-> ObsIds(inst)[k], kind |-> f[Min(k, 2)]]] :
        f \in [1..2 -> ObsKinds]}

(***************************************************************************)
(* Notebook 1: the makers                                                   *)
(***************************************************************************)
\* SpectrumDatasetMaker(selection=["counts", "exposure", "edisp"]).run: fills the
\* ON counts array of the dataset it is given and computes exposure and edisp
SpectrumDatasetMakerRun(d, o) ==
    LET nr == Len(d.counts)
        nt == Len(d.exposure)
    IN  [d EXCEPT
           !.counts   = [i \in 1..nr |-> d.counts[i] + OnEvents(o.kind, nr)[i]],
           !.exposure = Exposure(o.kind, nt),
           !.edisp    = Edisp(o.kind, nt, nr)]

\* ReflectedRegionsBackgroundMaker.run: fills the OFF counts
BackgroundMakerRun(d, o, config) ==
    [d EXCEPT
       !.counts_off = OffEvents(o.kind, Len(d.counts)),
       !.acceptance = 1,
       !.acceptance_off = NOffRegions(config, o.kind)]

AeffPercent == 10

SeqMax(q) == CHOOSE m \in {q[i] : i \in 1..Len(q)} : \A i \in 1..Len(q) : q[i] <= m

\* the energy at which the effective area reaches aeff_percent of its maximum:
\* the lower edge of the first true-energy bin at or above the threshold
AeffMaxEnergy(exposure, axis_true) ==
    LET ok == {j \in 1..Len(exposure) : 100 * exposure[j] >= AeffPercent * SeqMax(exposure)}
        j0 == CHOOSE j \in ok : \A k \in ok : j <= k
    IN  axis_true[j0]

\* SafeMaskMaker(methods=["aeff-max"], aeff_percent=10).run: a bin is safe when it
\* starts at or above that energy; only mask_safe is set
SafeMaskMakerRun(d, o, config) ==
    [d EXCEPT !.mask_safe =
        [i \in 1..Len(d.counts) |->
            /\ d.mask_safe[i]
            /\ EnergyAxis(config)[i] >= AeffMaxEnergy(d.exposure, EnergyAxisTrue(config))]]

\* the mutant: the maker fills the template itself instead of a copy
TemplateFilledInPlace(template, filled) == [filled EXCEPT !.name = template.name]

\* what dataset_maker.run(dataset_empty.copy(...), observation) leaves in
\* dataset_empty: the copy is filled, the template is untouched
TemplateAfterRun(template, filled) == template

(***************************************************************************)
(* Notebook 1: the cells                                                    *)
(***************************************************************************)
Pc(nb, inst, cell, i, at) == [nb |-> nb, inst |-> inst, cell |-> cell, i |-> i, at |-> at]

PcIdle == Pc(0, "none", "none", 0, "idle")

\* the instrument after inst, or "none"
NextInst(inst) ==
    IF inst = "hess" THEN "magic" ELSE IF inst = "magic" THEN "lst" ELSE "none"

\* the file a dataset is written to: results/spectra/<inst>/pha_obs_<obs_id>.fits
PhaPath(inst, obs_id) == <<inst, "pha_obs_" \o ToString(obs_id) \o ".fits">>

\* what dataset.write puts in the file
Persisted(d) ==
    [counts |-> d.counts, counts_off |-> d.counts_off,
     acceptance |-> d.acceptance, acceptance_off |-> d.acceptance_off,
     exposure |-> d.exposure, edisp |-> d.edisp, mask_safe |-> d.mask_safe]

NotRerun == [again |-> FALSE, datasets |-> <<>>]

NoFit == [active |-> FALSE, iter |-> 0]

NoFpe == [active |-> FALSE, model |-> "none", in_place |-> FALSE, todo |-> {}, points |-> <<>>]

InitPipe ==
    /\ pc = Pc(1, "hess", "config", 0, "cell")
    /\ observations \in [hess : ObservationsOf("hess"), magic : ObservationsOf("magic"),
                         lst : ObservationsOf("lst")]
    /\ dataset_empty = NoDataset
    /\ dataset = NoDataset
    /\ datasets_nb1 = [inst \in InstSet |-> <<>>]
    /\ first_run = [inst \in InstSet |-> NotRerun]
    /\ files = <<>>
    /\ loaded = NoDataset
    /\ datasets_nb2 = [inst \in InstSet |-> <<>>]
    /\ models = <<>>
    /\ fit = NoFit
    /\ results = <<>>
    /\ dataset_nb3 = NoDataset
    /\ models_fit = <<<<>>, <<>>>>
    /\ fpe = NoFpe
    /\ flux_points_lst = <<>>

\* cells 4b4c1726 (H.E.S.S.) and 78484d50, e9c40fc2 (MAGIC): axes, dataset_empty, makers
Configure ==
    /\ pc.nb = 1 /\ pc.cell = "config"
    /\ dataset_empty' = SpectrumDatasetCreate(pc.inst)
    /\ pc' = Pc(1, pc.inst, "reduce", 0, "start")
    /\ UNCHANGED <<run, nb0, fpeVars, nb3Vars, nb2Vars, observations, dataset, datasets_nb1, first_run, files>>

\* datasets_<inst> = Datasets()
ReduceStart ==
    /\ pc.nb = 1 /\ pc.cell = "reduce" /\ pc.at = "start"
    /\ datasets_nb1' = [datasets_nb1 EXCEPT ![pc.inst] = <<>>]
    /\ pc' = IF Len(observations[pc.inst]) = 0
             THEN Pc(1, pc.inst, "reduce", 0, "done")
             ELSE Pc(1, pc.inst, "reduce", 1, "maker")
    /\ UNCHANGED <<run, nb0, fpeVars, nb3Vars, nb2Vars, observations, dataset_empty, dataset, first_run, files>>

\* dataset = dataset_maker.run(dataset_empty.copy(name=str(obs_id)), observation)
MakerStep ==
    /\ pc.nb = 1 /\ pc.cell = "reduce" /\ pc.at = "maker"
    /\ LET o == observations[pc.inst][pc.i]
           filled == SpectrumDatasetMakerRun(
                         DatasetCopy(dataset_empty, ToString(o.obs_id)), o)
       IN  /\ dataset' = filled
           /\ dataset_empty' = TemplateAfterRun(dataset_empty, filled)
    /\ pc' = [pc EXCEPT !.at = "bkg"]
    /\ UNCHANGED <<run, nb0, fpeVars, nb3Vars, nb2Vars, observations, datasets_nb1, first_run, files>>

\* dataset_on_off = bkg_maker.run(dataset, observation)
BackgroundStep ==
    /\ pc.nb = 1 /\ pc.cell = "reduce" /\ pc.at = "bkg"
    /\ dataset' = BackgroundMakerRun(dataset, observations[pc.inst][pc.i], ConfigOf(pc.inst))
    /\ pc' = [pc EXCEPT !.at = IF HasSafeMask(pc.inst) THEN "safe" ELSE "append"]
    /\ UNCHANGED <<run, nb0, fpeVars, nb3Vars, nb2Vars, observations, dataset_empty, datasets_nb1, first_run, files>>

\* dataset_on_off = safe_mask_masker.run(dataset_on_off, observation)
SafeMaskStep ==
    /\ pc.nb = 1 /\ pc.cell = "reduce" /\ pc.at = "safe"
    /\ dataset' = SafeMaskMakerRun(dataset, observations[pc.inst][pc.i], ConfigOf(pc.inst))
    /\ pc' = [pc EXCEPT !.at = "append"]
    /\ UNCHANGED <<run, nb0, fpeVars, nb3Vars, nb2Vars, observations, dataset_empty, datasets_nb1, first_run, files>>

\* the mutant: the dataset is put at the head of the collection
InsertFirstStep ==
    /\ pc.nb = 1 /\ pc.cell = "reduce" /\ pc.at = "append"
    /\ datasets_nb1' = [datasets_nb1 EXCEPT ![pc.inst] = <<dataset>> \o @]
    /\ pc' = IF pc.i < Len(observations[pc.inst])
             THEN [pc EXCEPT !.i = pc.i + 1, !.at = "maker"]
             ELSE [pc EXCEPT !.at = "done"]
    /\ UNCHANGED <<run, nb0, fpeVars, nb3Vars, nb2Vars, observations, dataset_empty, dataset, first_run, files>>

\* datasets_<inst>.append(dataset_on_off), and the loop goes on or ends
AppendStep ==
    /\ pc.nb = 1 /\ pc.cell = "reduce" /\ pc.at = "append"
    /\ datasets_nb1' = [datasets_nb1 EXCEPT ![pc.inst] = Append(@, dataset)]
    /\ pc' = IF pc.i < Len(observations[pc.inst])
             THEN [pc EXCEPT !.i = pc.i + 1, !.at = "maker"]
             ELSE [pc EXCEPT !.at = "done"]
    /\ UNCHANGED <<run, nb0, fpeVars, nb3Vars, nb2Vars, observations, dataset_empty, dataset, first_run, files>>

\* a maker raises (an unreadable or incomplete DL3 file): the for statement has no
\* handler, the exception leaves the loop and ends the cell
MakerRaises ==
    /\ pc.nb = 1 /\ pc.cell = "reduce" /\ pc.at \in {"maker", "bkg", "safe"}
    /\ pc' = [pc EXCEPT !.at = "raised"]
    /\ UNCHANGED <<run, nb0, fpeVars, nb3Vars, nb2Vars, observations, dataset_empty, dataset, datasets_nb1, first_run, files>>

\* the reduction cell is run a second time
RerunReduce ==
    /\ pc.nb = 1 /\ pc.cell = "reduce" /\ pc.at = "done"
    /\ ~first_run[pc.inst].again
    /\ first_run' = [first_run EXCEPT ![pc.inst] =
                        [again |-> TRUE, datasets |-> datasets_nb1[pc.inst]]]
    /\ pc' = [pc EXCEPT !.i = 0, !.at = "start"]
    /\ UNCHANGED <<run, nb0, fpeVars, nb3Vars, nb2Vars, observations, dataset_empty, dataset, datasets_nb1, files>>

\* the next cell after the reduction loop: results_dir.mkdir(...) and the write loop
WriteStart ==
    /\ pc.nb = 1 /\ pc.cell = "reduce" /\ pc.at = "done"
    /\ pc' = Pc(1, pc.inst, "write", 1, "write")
    /\ UNCHANGED <<run, nb0, fpeVars, nb3Vars, nb2Vars, observations, dataset_empty, dataset, datasets_nb1, first_run, files>>

\* one iteration of: for observation, dataset in zip(observations, datasets):
\*     dataset.write(results_dir / f"pha_obs_{observation.obs_id}.fits", overwrite=True)
\* and, after the last one, the next instrument's first cell
WriteStep ==
    /\ pc.nb = 1 /\ pc.cell = "write"
    /\ LET n == Min(Len(observations[pc.inst]), Len(datasets_nb1[pc.inst]))
       IN  IF pc.i <= n
           THEN LET path == PhaPath(pc.inst, observations[pc.inst][pc.i].obs_id)
                    d == datasets_nb1[pc.inst][pc.i]
                IN  /\ files' = [f \in DOMAIN files \cup {path} |->
                                    IF f = path THEN Persisted(d) ELSE files[f]]
                    /\ dataset' = d
                    /\ pc' = [pc EXCEPT !.i = pc.i + 1]
           ELSE /\ UNCHANGED <<files, dataset>>
                /\ pc' = IF pc.inst = "hess" THEN Pc(1, "magic", "config", 0, "cell")
                         ELSE IF pc.inst = "magic" THEN Pc(1, "lst", "reduce", 0, "start")
                         ELSE Pc(1, "none", "end", 0, "end")
    /\ UNCHANGED <<run, nb0, fpeVars, nb3Vars, nb2Vars, observations, dataset_empty, datasets_nb1, first_run>>

NextReduce ==
    \/ Configure
    \/ ReduceStart
    \/ MakerStep
    \/ BackgroundStep
    \/ SafeMaskStep
    \/ AppendStep
    \/ MakerRaises
    \/ RerunReduce
    \/ WriteStart
    \/ WriteStep

(***************************************************************************)
(* Notebook 2: loading the datasets and the fit range                       *)
(***************************************************************************)
\* notebook 1 is closed: its kernel's variables are gone, the files stay
OpenNotebook2 ==
    /\ pc = Pc(1, "none", "end", 0, "end")
    /\ pc' = Pc(2, "hess", "load", 1, "read")
    /\ dataset_empty' = NoDataset
    /\ dataset' = NoDataset
    /\ datasets_nb1' = [inst \in InstSet |-> <<>>]
    /\ first_run' = [inst \in InstSet |-> NotRerun]
    /\ UNCHANGED <<run, nb0, fpeVars, nb3Vars, nb2Vars, observations, files>>

\* e_min_hess, e_min_magic, e_min_lst in GeV
EMin(inst) == IF inst = "hess" THEN 660 ELSE IF inst = "magic" THEN 80 ELSE 60

\* e_max_hess, e_max_magic, e_max_lst in GeV
EMax(inst) == IF inst = "magic" THEN 10000 ELSE 30000

\* counts.geom.energy_mask(e_min, e_max): the bins that lie inside [e_min, e_max]
EnergyMask(axis, e_min, e_max) ==
    [i \in 1..NBin(axis) |-> axis[i] >= e_min /\ axis[i + 1] <= e_max]

\* SpectrumDatasetOnOff.read(path): the dataset the file holds, without fit mask
\* and without models
SpectrumDatasetOnOffRead(path) ==
    [name       |-> path[2],
     counts     |-> files[path].counts,
     counts_off |-> files[path].counts_off,
     acceptance |-> files[path].acceptance,
     acceptance_off |-> files[path].acceptance_off,
     exposure   |-> files[path].exposure,
     edisp      |-> files[path].edisp,
     mask_safe  |-> files[path].mask_safe,
     mask_fit   |-> <<>>,
     models     |-> <<>>]

\* dataset = SpectrumDatasetOnOff.read(f"results/spectra/<inst>/pha_obs_{obs_id}.fits");
\* a missing file raises and ends the cell
ReadStep ==
    /\ pc.nb = 2 /\ pc.cell = "load" /\ pc.at = "read"
    /\ LET path == PhaPath(pc.inst, ObsIds(pc.inst)[pc.i])
       IN  IF path \in DOMAIN files
           THEN /\ loaded' = SpectrumDatasetOnOffRead(path)
                /\ pc' = [pc EXCEPT !.at = "mask"]
           ELSE /\ loaded' = loaded
                /\ pc' = [pc EXCEPT !.at = "raised"]
    /\ UNCHANGED <<run, nb0, fpeVars, nb3Vars, nb1Vars, files, datasets_nb2, models, fit, results>>

\* dataset.mask_fit = dataset.counts.geom.energy_mask(e_min, e_max);
\* datasets.append(dataset); then the next obs_id, instrument or cell
MaskFitStep ==
    /\ pc.nb = 2 /\ pc.cell = "load" /\ pc.at = "mask"
    /\ LET d == [loaded EXCEPT !.mask_fit =
                    EnergyMask(EnergyAxis(pc.inst), EMin(pc.inst), EMax(pc.inst))]
       IN  /\ loaded' = d
           /\ datasets_nb2' = [datasets_nb2 EXCEPT ![pc.inst] = Append(@, d)]
    /\ pc' = IF pc.i < Len(ObsIds(pc.inst)) THEN [pc EXCEPT !.i = pc.i + 1, !.at = "read"]
             ELSE IF NextInst(pc.inst) # "none" THEN Pc(2, NextInst(pc.inst), "load", 1, "read")
             ELSE Pc(2, "lst", "model", 0, "cell")
    /\ UNCHANGED <<run, nb0, fpeVars, nb3Vars, nb1Vars, files, models, fit, results>>

(***************************************************************************)
(* Notebook 2: the spectral model and the predicted counts                  *)
(*                                                                         *)
(* Parameter values lie on a grid: the amplitude in units of                *)
(* 5e-12 TeV-1 cm-2 s-1, alpha and beta rounded to integers.                *)
(***************************************************************************)
Parameter(value, frozen, min, max) ==
    [value |-> value, frozen |-> frozen, min |-> min, max |-> max]

\* no bound declared (nan)
NoBound == -1

\* amplitude.max = 1e-5, in units of 5e-12
AmplitudeMax == 2000000

\* LogParabolaSpectralModel(amplitude=5e-12, reference=1 TeV, alpha=2.3, beta=0.1),
\* then amplitude.min = 1e-20 (below one grid unit) and amplitude.max = 1e-5
SpectralModelNb2 ==
    [amplitude |-> Parameter(1, FALSE, 0, AmplitudeMax),
     reference |-> Parameter(1000, TRUE, NoBound, NoBound),
     alpha     |-> Parameter(2, FALSE, NoBound, NoBound),
     beta      |-> Parameter(0, FALSE, NoBound, NoBound)]

\* the values the optimizer may give a parameter
Grid(name) ==
    IF name = "amplitude" THEN {1, 2, 10}
    ELSE IF name = "alpha" THEN {1, 2}
    ELSE IF name = "index" THEN {15, 20, 27}
    ELSE IF name = "lambda_" THEN {3, 10}
    ELSE IF name = "reference" THEN {1000}
    ELSE {0, 1}

RECURSIVE SumTo(_, _)
\* f[1] + ... + f[n]
SumTo(f, n) == IF n = 0 THEN 0 ELSE f[n] + SumTo(f, n - 1)

\* integral over true-energy bin j (of nt) of the log-parabola with amplitude 1, in
\* arbitrary units: a parabola in the logarithm of the energy
UnitFlux(m, j, nt) ==
    Pow(2, (nt - j) * (m.alpha.value + m.beta.value * (nt - j)))

\* integral of dphi/dE over true-energy bin j: the amplitude is a factor
FluxIntegral(m, j, nt) == m.amplitude.value * UnitFlux(m, j, nt)

\* the mutant: the background alpha N_off is added to the predicted signal
NpredPlusBackground(d, m) ==
    [i \in 1..Len(d.counts) |->
        SumTo([j \in 1..Len(d.exposure) |->
                  d.exposure[j] * d.edisp[j][i] * FluxIntegral(m, j, Len(d.exposure))],
              Len(d.exposure))
        + d.counts_off[i]]

\* predicted signal counts g_i of dataset d under spectral model m:
\* the flux folded with the exposure and the energy dispersion
NpredSignal(d, m) ==
    [i \in 1..Len(d.counts) |->
        SumTo([j \in 1..Len(d.exposure) |->
                  d.exposure[j] * d.edisp[j][i] * FluxIntegral(m, j, Len(d.exposure))],
              Len(d.exposure))]

\* the bins a dataset lets into the fit: inside the safe range and the fit range
Mask(d) ==
    [i \in 1..Len(d.counts) |->
        d.mask_safe[i] /\ (d.mask_fit = <<>> \/ d.mask_fit[i])]

\* one factor Pois(g_i + b_i; N_on,i) Pois(b_i / alpha; N_off,i) of the likelihood,
\* by the numbers that determine it
StatTerm(d, m, i) ==
    [n_on |-> d.counts[i], n_off |-> d.counts_off[i],
     acceptance |-> d.acceptance, acceptance_off |-> d.acceptance_off,
     npred |-> NpredSignal(d, m)[i]]

\* the mutant: every bin enters the statistic
StatSumAllBins(d, m) == [i \in 1..Len(d.counts) |-> StatTerm(d, m, i)]

\* dataset.stat_sum(): -2 ln L as the sum of its terms, kept as the terms summed
StatSum(d, m) ==
    [i \in {k \in 1..Len(d.counts) : Mask(d)[k]} |-> StatTerm(d, m, i)]

(***************************************************************************)
(* Notebook 2: the cells that define, change and fit the model              *)
(***************************************************************************)
\* the mutant: copy() hands back the object itself
SameObject(id, n) == id

\* identity of the n-th copy made of the model object id
CopyId(id, n) == id \o ".copy" \o ToString(n)

\* the name a model object goes by in a Models list: the background model of a
\* dataset is named after the dataset, whichever copy it is
NameOf(id) ==
    IF id \in {"bkg_model", CopyId("bkg_model", 1), CopyId("bkg_model", 2)}
    THEN "dataset-simu-bkg"
    ELSE id

\* the mutant: every dataset of the collection is given copies of its own
AssignModelCopies(ms, ds, ids) ==
    [models   |-> [id \in DOMAIN ms \cup
                             {CopyId(ids[n], k) : n \in 1..Len(ids), k \in 1..Len(ds)} |->
                      IF id \in DOMAIN ms THEN ms[id]
                      ELSE ms[CHOOSE o \in DOMAIN ms : \E k \in 1..Len(ds) : CopyId(o, k) = id]],
     datasets |-> [k \in 1..Len(ds) |->
                      [ds[k] EXCEPT !.models = [n \in 1..Len(ids) |-> CopyId(ids[n], k)]]]]

\* datasets.models = [the objects ids]: every dataset of the collection refers to
\* the objects given, no object is made
AssignModels(ms, ds, ids) ==
    [models   |-> ms,
     datasets |-> [k \in 1..Len(ds) |-> [ds[k] EXCEPT !.models = ids]]]

\* the object spectral_model is bound to; model = SkyModel(spectral_model=...) wraps it
SpectralModelObject == "CrabNebula"

\* spectral_model = LogParabolaSpectralModel(...);
\* model = SkyModel(spectral_model=spectral_model, name="CrabNebula");
\* datasets_lst.models = [model]
DefineModel ==
    /\ pc = Pc(2, "lst", "model", 0, "cell")
    /\ LET assigned == AssignModels([id \in {SpectralModelObject} |-> SpectralModelNb2],
                                    datasets_nb2["lst"], <<SpectralModelObject>>)
       IN  /\ models' = assigned.models
           /\ datasets_nb2' = [datasets_nb2 EXCEPT !["lst"] = assigned.datasets]
    /\ pc' = Pc(2, "lst", "set_amplitude", 0, "cell")
    /\ UNCHANGED <<run, nb0, fpeVars, nb3Vars, nb1Vars, files, loaded, fit, results>>

\* datasets.models[0]: the first model of the first dataset that has one
FirstModel(ds) ==
    LET with == {k \in 1..Len(ds) : Len(ds[k].models) > 0}
        k0 == CHOOSE k \in with : \A l \in with : k <= l
    IN  ds[k0].models[1]

\* the mutant: the cell is not held back while fit.run is running
SetAmplitudeAnyTime ==
    /\ pc.nb = 2 /\ pc.cell \in {"set_amplitude", "fit"}
    /\ models' = [models EXCEPT ![FirstModel(datasets_nb2["lst"])].amplitude.value = 10]
    /\ pc' = IF pc.cell = "set_amplitude" THEN Pc(2, "lst", "fit", 0, "cell") ELSE pc
    /\ UNCHANGED <<run, nb0, fpeVars, nb3Vars, nb1Vars, files, loaded, datasets_nb2, fit, results>>

\* datasets_lst.models[0].spectral_model.amplitude.value = 5e-11; the cell runs
\* when the cells before it have ended and ends before the fit cell is entered
SetAmplitude ==
    /\ pc = Pc(2, "lst", "set_amplitude", 0, "cell")
    /\ models' = [models EXCEPT ![FirstModel(datasets_nb2["lst"])].amplitude.value = 10]
    /\ pc' = Pc(2, "lst", "fit", 0, "cell")
    /\ UNCHANGED <<run, nb0, fpeVars, nb3Vars, nb1Vars, files, loaded, datasets_nb2, fit, results>>

(***************************************************************************)
(* Fit.run: the optimizer moves the free parameters of the models of the    *)
(* datasets it is given; which values it tries is left open                 *)
(***************************************************************************)
\* the datasets handed to fit.run in the current notebook: datasets_lst in
\* notebook 2, [dataset] in notebook 3
FitDatasets == IF pc.nb = 2 THEN datasets_nb2["lst"] ELSE <<dataset_nb3>>

\* the model objects those datasets refer to
FitModels == UNION {{d.models[k] : k \in 1..Len(d.models)} :
                       d \in {FitDatasets[n] : n \in 1..Len(FitDatasets)}}

\* all parameters of the model objects ids
ParametersOf(ms, ids) ==
    UNION {{<<id, name>> : name \in DOMAIN ms[id]} : id \in ids}

\* the mutant: the optimizer varies every parameter, frozen or not
FrozenIgnored(ms, ids) == ParametersOf(ms, ids)

\* the parameters the optimizer varies: those not frozen
FreeParameters(ms, ids) ==
    {p \in ParametersOf(ms, ids) : ~ms[p[1]][p[2]].frozen}

\* fit = Fit(); results = fit.run(datasets=...) is entered
FitStart ==
    /\ pc.cell = "fit" /\ pc.at = "cell"
    /\ fit' = [active |-> TRUE, iter |-> 0]
    /\ pc' = [pc EXCEPT !.at = "run"]
    /\ UNCHANGED <<run, nb0, fpeVars, nb3Vars, nb1Vars, files, loaded, datasets_nb2, models, results>>

\* one step of the optimizer: a free parameter is given a trial value
FitIter ==
    /\ pc.cell = "fit" /\ pc.at = "run" /\ fit.active /\ fit.iter < MaxIter
    /\ \E p \in FreeParameters(models, FitModels) :
           \E x \in Grid(p[2]) :
               models' = [models EXCEPT ![p[1]][p[2]].value = x]
    /\ fit' = [fit EXCEPT !.iter = fit.iter + 1]
    /\ UNCHANGED <<run, nb0, fpeVars, nb3Vars, pc, nb1Vars, files, loaded, datasets_nb2, results>>

\* the values of all parameters of the fitted models
ParameterValues(ms, ids) ==
    [p \in ParametersOf(ms, ids) |-> ms[p[1]][p[2]].value]

\* fit.run returns its Fit Result
FitReturn ==
    /\ pc.cell = "fit" /\ pc.at = "run" /\ fit.active
    /\ results' = Append(results, [parameters |-> ParameterValues(models, FitModels),
                                   nfev |-> fit.iter])
    /\ fit' = NoFit
    /\ pc' = IF pc.nb = 3 /\ pc.i = 1 THEN Pc(3, "none", "models_fit", 2, "cell")
             ELSE IF pc.nb = 2 THEN Pc(2, "lst", "fpe", 0, "cell")
             ELSE Pc(pc.nb, "none", "end", 0, "end")
    /\ UNCHANGED <<run, nb0, fpeVars, nb3Vars, nb1Vars, files, loaded, datasets_nb2, models>>

(***************************************************************************)
(* Notebook 2: flux points                                                  *)
(*                                                                         *)
(* The estimator starts from the best-fit spectrum and re-adjusts it        *)
(* separately to the events within each energy bin; only the amplitude is   *)
(* re-fitted.  Whether it works on the attached model object or on a copy   *)
(* of it, and in which order it takes the bins, is left open.               *)
(***************************************************************************)
\* edges[4] of the 20 logarithmic bins from 10 GeV to 1e5 GeV, in GeV
FpeEdgeLow == 63

\* edges[18], the last edge of edges[4:-2], in GeV
FpeEdgeHigh == 39811

\* energy_edges = datasets_lst[0].counts.geom.axes["energy"].edges[4:-2]:
\* the edges of the axis between those two
FluxPointEdges(axis) ==
    LET Inside(e) == FpeEdgeLow <= e /\ e <= FpeEdgeHigh
    IN  SelectSeq(axis, Inside)

\* the model object that goes by the name source in the models of ds
SourceModel(ds, source) ==
    CHOOSE id \in UNION {{ds[k].models[n] : n \in 1..Len(ds[k].models)} : k \in 1..Len(ds)} :
        NameOf(id) = source

\* the mutant: a per-bin re-fit varies every free parameter of the source
FpeRefitsShape(ms, id) == FreeParameters(ms, {id})

\* the parameters a per-bin re-fit varies: the amplitude of the source
FpeParameters(ms, id) == {<<id, "amplitude">>}

\* the mutant: the estimator's cell is run in the place of the fit cell
FpeStartUnfitted ==
    /\ pc = Pc(2, "lst", "fit", 0, "cell")
    /\ \E in_place \in BOOLEAN :
           fpe' = [active   |-> TRUE,
                   model    |-> SourceModel(datasets_nb2["lst"], "CrabNebula"),
                   in_place |-> in_place,
                   todo     |-> 1..(Len(FluxPointEdges(EnergyAxis("lst"))) - 1),
                   points   |-> <<>>]
    /\ pc' = Pc(2, "lst", "fpe", 0, "run")
    /\ UNCHANGED <<run, nb0, nb1Vars, files, nb2Vars, nb3Vars, flux_points_lst>>

\* fpe_lst = FluxPointsEstimator(energy_edges=energy_edges, source="CrabNebula",
\* selection_optional="all"); fpe_lst.run(datasets=datasets_lst) is entered
FpeStart ==
    /\ pc = Pc(2, "lst", "fpe", 0, "cell")
    /\ \E in_place \in BOOLEAN :
           fpe' = [active   |-> TRUE,
                   model    |-> SourceModel(datasets_nb2["lst"], "CrabNebula"),
                   in_place |-> in_place,
                   todo     |-> 1..(Len(FluxPointEdges(EnergyAxis("lst"))) - 1),
                   points   |-> <<>>]
    /\ pc' = [pc EXCEPT !.at = "run"]
    /\ UNCHANGED <<run, nb0, nb1Vars, files, nb2Vars, nb3Vars, flux_points_lst>>

\* the re-fit of energy bin b: one of the varied parameters gets the value that
\* suits the events of the bin, on the attached model object or on a copy of it
FpeSubFit(b) ==
    /\ pc = Pc(2, "lst", "fpe", 0, "run") /\ fpe.active /\ b \in fpe.todo
    /\ \E p \in FpeParameters(models, fpe.model) :
           \E x \in Grid(p[2]) :
               /\ fpe' = [fpe EXCEPT
                             !.todo = @ \ {b},
                             !.points = @ @@ (b :> [e_min |-> FluxPointEdges(EnergyAxis("lst"))[b],
                                                    e_max |-> FluxPointEdges(EnergyAxis("lst"))[b + 1],
                                                    parameter |-> p[2],
                                                    value |-> x])]
               /\ models' = IF fpe.in_place
                             THEN [models EXCEPT ![p[1]][p[2]].value = x]
                             ELSE models
    /\ UNCHANGED <<run, nb0, pc, nb1Vars, files, loaded, datasets_nb2, fit, results,
                   nb3Vars, flux_points_lst>>

\* flux_points_lst = fpe_lst.run(...) returns, one flux point per energy bin
FpeReturn ==
    /\ pc = Pc(2, "lst", "fpe", 0, "run") /\ fpe.active /\ fpe.todo = {}
    /\ flux_points_lst' = fpe.points
    /\ fpe' = NoFpe
    /\ pc' = Pc(2, "none", "end", 0, "end")
    /\ UNCHANGED <<run, nb0, nb1Vars, files, nb2Vars, nb3Vars>>

NextFit ==
    \/ OpenNotebook2
    \/ ReadStep
    \/ MaskFitStep
    \/ DefineModel
    \/ SetAmplitude
    \/ FitStart
    \/ FitIter
    \/ FitReturn

NextFpe ==
    \/ FpeStart
    \/ \E b \in 1..NBin(EnergyAxis("lst")) : FpeSubFit(b)
    \/ FpeReturn

(***************************************************************************)
(* Notebook 3: simulated sources, fits on copies with the background frozen  *)
(*                                                                         *)
(* Spectral parameters only; amplitudes in units of 1e-12 TeV-1 cm-2 s-1,   *)
(* indices in tenths, lambda_ in units of 1/(30 TeV), energies in GeV.      *)
(***************************************************************************)
\* the parameters a model class declares, with their default values
DefaultParameters(class) ==
    IF class = "ExpCutoffPowerLawSpectralModel"
    THEN [amplitude |-> Parameter(1, FALSE, NoBound, NoBound),
          index     |-> Parameter(15, FALSE, NoBound, NoBound),
          lambda_   |-> Parameter(3, FALSE, NoBound, NoBound),
          reference |-> Parameter(1000, TRUE, NoBound, NoBound)]
    ELSE IF class = "PowerLawSpectralModel"
    THEN [amplitude |-> Parameter(1, FALSE, NoBound, NoBound),
          index     |-> Parameter(20, FALSE, NoBound, NoBound),
          reference |-> Parameter(1000, TRUE, NoBound, NoBound)]
    ELSE [norm      |-> Parameter(1, FALSE, NoBound, NoBound),
          tilt      |-> Parameter(0, TRUE, NoBound, NoBound),
          reference |-> Parameter(1000, TRUE, NoBound, NoBound)]

\* class(**kwargs): a parameter named by a keyword takes the keyword's value, the
\* others keep their defaults; a keyword that names no parameter is not looked at
ModelCreate(class, kwargs) ==
    [name \in DOMAIN DefaultParameters(class) |->
        IF name \in DOMAIN kwargs
        THEN [DefaultParameters(class)[name] EXCEPT !.value = kwargs[name]]
        ELSE DefaultParameters(class)[name]]

\* spectral_model_1, spectral_model_2, spectral_model_3 and bkg_model as constructed
SimulatedModels ==
    [model_1   |-> ModelCreate("ExpCutoffPowerLawSpectralModel",
                       [amplitue |-> 5, index |-> 15, reference |-> 1000, lambda_ |-> 10]),
     model_2   |-> ModelCreate("PowerLawSpectralModel",
                       [amplitude |-> 3, index |-> 20, reference |-> 1000]),
     model_3   |-> ModelCreate("PowerLawSpectralModel",
                       [amplitude |-> 10, index |-> 27, reference |-> 1000]),
     bkg_model |-> ModelCreate("FoVBackgroundModel", <<>>)]

\* cell 8e2cd8ea: the three sources, the background and models_simu
DefineSimulatedModels ==
    /\ pc = Pc(3, "none", "models_simu", 0, "cell")
    /\ models' = SimulatedModels
    /\ pc' = Pc(3, "none", "simulate", 0, "cell")
    /\ UNCHANGED <<run, nb0, fpeVars, nb1Vars, files, loaded, datasets_nb2, fit, results, nb3Vars>>

\* cells 92abac96, 7f6b944d: dataset = maker.run(empty, obs), safe mask,
\* dataset.models = models_simu, dataset.fake(0)
SimulateDataset ==
    /\ pc = Pc(3, "none", "simulate", 0, "cell")
    /\ dataset_nb3' = [name |-> "dataset-simu",
                       models |-> <<"model_1", "model_2", "model_3", "bkg_model">>]
    /\ pc' = Pc(3, "none", "models_fit", 1, "cell")
    /\ UNCHANGED <<run, nb0, fpeVars, nb1Vars, files, nb2Vars, models_fit>>

\* models_list[name]
ModelNamed(models_list, name) ==
    models_list[CHOOSE k \in 1..Len(models_list) : NameOf(models_list[k]) = name]

\* the objects copied for the n-th fit
Originals(n) ==
    IF n = 1 THEN <<"model_1", "model_3", "bkg_model">>
    ELSE <<"model_1", "model_2", "model_3", "bkg_model">>

\* the heap after originals[k].copy() for every k: each copy is a new object with
\* the parameters of its original
WithCopies(ms, originals, n) ==
    [id \in DOMAIN ms \cup {CopyId(originals[k], n) : k \in 1..Len(originals)} |->
        IF id \in DOMAIN ms THEN ms[id]
        ELSE ms[CHOOSE o \in DOMAIN ms : CopyId(o, n) = id]]

\* cells 27fc83aa (n = 1) and ed257cc0 (n = 2):
\* models_fit_n = Models([... .copy()]); norm and tilt of the copied background
\* frozen; dataset.models = models_fit_n
DefineFitModels(n) ==
    /\ pc = Pc(3, "none", "models_fit", n, "cell")
    /\ LET copies == [k \in 1..Len(Originals(n)) |-> CopyId(Originals(n)[k], n)]
           bkg == ModelNamed(copies, "dataset-simu-bkg")
       IN  /\ models' = [WithCopies(models, Originals(n), n) EXCEPT
                            ![bkg].norm.frozen = TRUE, ![bkg].tilt.frozen = TRUE]
           /\ models_fit' = [models_fit EXCEPT ![n] = copies]
           /\ dataset_nb3' = [dataset_nb3 EXCEPT !.models = copies]
    /\ pc' = Pc(3, "none", "fit", n, "cell")
    /\ UNCHANGED <<run, nb0, fpeVars, nb1Vars, files, loaded, datasets_nb2, fit, results>>

Next3D ==
    \/ DefineSimulatedModels
    \/ SimulateDataset
    \/ \E n \in 1..2 : DefineFitModels(n)
    \/ FitStart
    \/ FitIter
    \/ FitReturn

NoTs == [num |-> 0, den |-> 0]

\* the kernel of notebook 0 before the MAGIC file is read
NoKernel0 == [cell |-> "none"]

StatInputs ==
    [n_on : 0..MaxCount, n_off : 0..MaxCount, p : {1, 2}, q : {1, 2}, ts : {NoTs}]

\* the kernels of notebooks 1, 2 and 3 hold nothing
KernelsIdle ==
    /\ observations = [inst \in InstSet |-> <<>>]
    /\ dataset_empty = NoDataset
    /\ dataset = NoDataset
    /\ datasets_nb1 = [inst \in InstSet |-> <<>>]
    /\ first_run = [inst \in InstSet |-> NotRerun]
    /\ files = <<>>
    /\ loaded = NoDataset
    /\ datasets_nb2 = [inst \in InstSet |-> <<>>]
    /\ models = <<>>
    /\ fit = NoFit
    /\ results = <<>>
    /\ dataset_nb3 = NoDataset
    /\ models_fit = <<<<>>, <<>>>>
    /\ fpe = NoFpe
    /\ flux_points_lst = <<>>

\* notebooks 1, 2 and 3 not started
PipeIdle == pc = PcIdle /\ KernelsIdle

InitStat ==
    /\ run \in {f \in [1..2 -> StatInputs] :
                \A k \in 1..2 : <<f[k].p, f[k].q>> \in Alphas}
    /\ nb0 = NoKernel0
    /\ PipeIdle

\* cell 48: statistics = WStatCountsStatistic(n_on=n_on, n_off=n_off, alpha=...)
Significance(k) ==
    /\ run[k].ts = NoTs
    /\ run' = [run EXCEPT ![k].ts =
                  WStatCountsStatistic(run[k].n_on, run[k].n_off, run[k].p, run[k].q)]
    /\ UNCHANGED <<nb0, pipeVars>>

NextStat == \E k \in 1..2 : Significance(k)

SpecStat == InitStat /\ [][NextStat]_vars

\* notebook 0 not run
StatIdle ==
    /\ run = [k \in 1..2 |-> [n_on |-> 0, n_off |-> 0, p |-> 1, q |-> 1, ts |-> NoTs]]
    /\ nb0 = NoKernel0

Init == StatIdle /\ InitPipe

Next == NextReduce \/ NextFit

Spec == Init /\ [][Next]_vars

\* notebooks 1 and 2 to the last cell, the flux points included
NextAll == Next \/ NextFpe

SpecFpe == Init /\ [][NextAll]_vars

\* notebook 3 alone, from a fresh kernel
Init3D == StatIdle /\ KernelsIdle /\ pc = Pc(3, "none", "models_simu", 0, "cell")

Spec3D == Init3D /\ [][Next3D]_vars

(***************************************************************************)
(* Notebook 2 on the uncoarsened LST axis: the fit range and the energy     *)
(* edges of the flux points                                                 *)
(***************************************************************************)
\* MapAxis.from_energy_bounds(10, 1e5, nbin=20, unit="GeV"): the 21 edges
\* 10^(1 + k/5) GeV, k = 0..20, rounded to the GeV
EnergyEdgesLst ==
    <<10, 16, 25, 40, 63, 100, 158, 251, 398, 631, 1000, 1585, 2512, 3981, 6310,
      10000, 15849, 25119, 39811, 63096, 100000>>

\* Python's q[start:stop]: indices from 0, a negative index counts from the end,
\* stop is excluded
Slice(q, start, stop) ==
    LET lo == IF start < 0 THEN Len(q) + start ELSE start
        hi == IF stop < 0 THEN Len(q) + stop ELSE stop
    IN  SubSeq(q, (IF lo < 0 THEN 0 ELSE lo) + 1, Min(hi, Len(q)))

\* the bins of axis that lie inside [lo, hi]
BinsWithin(axis, lo, hi) ==
    {i \in 1..NBin(axis) : axis[i] >= lo /\ axis[i + 1] <= hi}

\* an LST dataset as read from its file, on the 20 bins, before mask_fit is set
DatasetReadLst(o) ==
    [name     |-> ToString(o.obs_id),
     counts   |-> OnEvents(o.kind, NBin(EnergyEdgesLst)),
     mask_fit |-> <<>>]

\* the LST datasets have been read; the fit range is about to be set
InitRange ==
    /\ StatIdle
    /\ pc = Pc(2, "lst", "load", 1, "mask_fit")
    /\ observations \in [hess : {<<>>}, magic : {<<>>},
                         lst : [1..Len(ObsIds("lst")) ->
                                   {[obs_id |-> id, kind |-> kind] :
                                       id \in {ObsIds("lst")[k] : k \in 1..Len(ObsIds("lst"))},
                                       kind \in ObsKinds}]]
    /\ \A k \in 1..Len(ObsIds("lst")) : observations["lst"][k].obs_id = ObsIds("lst")[k]
    /\ datasets_nb2 = [inst \in InstSet |->
                          IF inst = "lst"
                          THEN [k \in 1..Len(ObsIds("lst")) |->
                                   DatasetReadLst(observations["lst"][k])]
                          ELSE <<>>]
    /\ dataset_empty = NoDataset
    /\ dataset = NoDataset
    /\ datasets_nb1 = [inst \in InstSet |-> <<>>]
    /\ first_run = [inst \in InstSet |-> NotRerun]
    /\ files = <<>>
    /\ loaded = NoDataset
    /\ models = <<>>
    /\ fit = NoFit
    /\ results = <<>>
    /\ dataset_nb3 = NoDataset
    /\ models_fit = <<<<>>, <<>>>>
    /\ fpe = NoFpe
    /\ flux_points_lst = <<>>

\* dataset.mask_fit = dataset.counts.geom.energy_mask(e_min_lst, e_max_lst), for
\* the next LST dataset
MaskFitLst ==
    /\ pc.nb = 2 /\ pc.inst = "lst" /\ pc.cell = "load" /\ pc.at = "mask_fit"
    /\ datasets_nb2' = [datasets_nb2 EXCEPT !["lst"][pc.i].mask_fit =
                           EnergyMask(EnergyEdgesLst, EMin("lst"), EMax("lst"))]
    /\ pc' = IF pc.i < Len(datasets_nb2["lst"]) THEN [pc EXCEPT !.i = pc.i + 1]
             ELSE Pc(2, "lst", "fpe", 0, "edges")
    /\ UNCHANGED <<run, nb0, nb1Vars, files, loaded, models, fit, results, nb3Vars, fpeVars>>

\* energy_edges = datasets_lst[0].counts.geom.axes["energy"].edges[4:-2];
\* FluxPointsEstimator(energy_edges=energy_edges, ...).run is entered
EdgesLst ==
    /\ pc = Pc(2, "lst", "fpe", 0, "edges")
    /\ LET energy_edges == Slice(EnergyEdgesLst, 4, -2)
       IN  fpe' = [active |-> TRUE, energy_edges |-> energy_edges,
                   todo |-> 1..(Len(energy_edges) - 1), points |-> <<>>]
    /\ pc' = [pc EXCEPT !.at = "bins"]
    /\ UNCHANGED <<run, nb0, nb1Vars, files, nb2Vars, nb3Vars, flux_points_lst>>

\* the estimator takes flux point bin b: the bins of the datasets between the
\* edges b and b + 1
FluxBinLst(b) ==
    /\ pc = Pc(2, "lst", "fpe", 0, "bins") /\ b \in fpe.todo
    /\ fpe' = [fpe EXCEPT
                  !.todo = @ \ {b},
                  !.points = @ @@ (b :> [e_min |-> fpe.energy_edges[b],
                                         e_max |-> fpe.energy_edges[b + 1],
                                         bins  |-> BinsWithin(EnergyEdgesLst,
                                                              fpe.energy_edges[b],
                                                              fpe.energy_edges[b + 1])])]
    /\ UNCHANGED <<run, nb0, pc, nb1Vars, files, nb2Vars, nb3Vars, flux_points_lst>>

\* fpe_lst.run returns
FluxBinsReturn ==
    /\ pc = Pc(2, "lst", "fpe", 0, "bins") /\ fpe.todo = {}
    /\ flux_points_lst' = fpe.points
    /\ fpe' = NoFpe
    /\ pc' = Pc(2, "none", "end", 0, "end")
    /\ UNCHANGED <<run, nb0, nb1Vars, files, nb2Vars, nb3Vars>>

NextRange ==
    \/ MaskFitLst
    \/ EdgesLst
    \/ (\E b \in 1..NBin(EnergyEdgesLst) : FluxBinLst(b))
    \/ FluxBinsReturn

SpecRange == InitRange /\ [][NextRange]_vars

(***************************************************************************)
(* Notebook 0: the MAGIC sky map, the ON and the OFF region                 *)
(*                                                                         *)
(* A sky position is a point <<x, y>> of a lattice, x to the east and y to  *)
(* the north, in units of the ON radius (0.2 deg); the sky map has one      *)
(* pixel per lattice point.  A separation is kept as its square.  Position  *)
(* angles are in degrees east of north, on the eight compass directions.    *)
(***************************************************************************)
\* on_region = CircleSkyRegion(center=coordinates_crab, radius=0.2 * u.deg)
RadiusOn == 1

\* off_region = CircleSkyRegion(center=off_region_centre, radius=0.2 * u.deg)
RadiusOff == 1

\* counts = Map.create(skydir=magic_pointing_radec, binsz=0.06, width=4): the map
\* reaches 2 deg to each side of the pointing
MapHalfWidth == 10

Compass == {0, 45, 90, 135, 180, 225, 270, 315}

\* the lattice step in the direction of a position angle
Unit(angle) ==
    CASE angle = 0   -> <<0, 1>>
      [] angle = 45  -> <<1, 1>>
      [] angle = 90  -> <<1, 0>>
      [] angle = 135 -> <<1, -1>>
      [] angle = 180 -> <<0, -1>>
      [] angle = 225 -> <<-1, -1>>
      [] angle = 270 -> <<-1, 0>>
      [] angle = 315 -> <<-1, 1>>

\* a.separation(b), squared
Separation(a, b) == (b[1] - a[1]) * (b[1] - a[1]) + (b[2] - a[2]) * (b[2] - a[2])

\* a.position_angle(b): the direction of b as seen from a, 0 when they coincide
PositionAngle(a, b) ==
    IF a = b THEN 0
    ELSE CHOOSE angle \in Compass :
             \E k \in 1..(Abs(b[1] - a[1]) + Abs(b[2] - a[2])) :
                 b = <<a[1] + k * Unit(angle)[1], a[2] + k * Unit(angle)[2]>>

\* a.directional_offset_by(position_angle, separation): the point at that
\* (squared) separation from a in that direction; the angle is taken modulo 360
DirectionalOffsetBy(a, position_angle, separation) ==
    LET u == Unit(position_angle % 360)
        k == CHOOSE k \in 0..separation :
                 k * k * (u[1] * u[1] + u[2] * u[2]) = separation
    IN  <<a[1] + k * u[1], a[2] + k * u[2]>>

\* the mutant: the OFF region is put at the position angle of the source
OffRegionAngleOfSource(source_angle) == source_angle

\* off_region_angle = source_angle + 180 * u.deg
OffRegionAngle(source_angle) == source_angle + 180

CircleSkyRegion(center, radius) == [center |-> center, radius |-> radius]

NoRegion == CircleSkyRegion(<<0, 0>>, 0)

\* is the position inside the circle (its border included)
Contains(region, pos) == Separation(region.center, pos) <= region.radius * region.radius

\* events.select_region(region): a new event list with the events inside the region
SelectRegion(events, region) ==
    LET Inside(pos) == Contains(region, pos)
    IN  SelectSeq(events, Inside)

\* the mutant: the selection is applied to the event list itself
EventsFilteredInPlace(events, selected) == selected

\* the event list a selection was taken from, after the selection
EventsAfterSelect(events, selected) == events

\* is the position inside the map centred on the pointing
InFootprint(pointing, pos) ==
    /\ Abs(pos[1] - pointing[1]) <= MapHalfWidth
    /\ Abs(pos[2] - pointing[2]) <= MapHalfWidth

\* Map.create(...): every pixel is zero; only the pixels that are not are kept
MapCreate == [px \in {} |-> 0]

\* counts.fill_events(events): every event inside the map is added to the pixel
\* it falls in, on top of what the pixel holds
FillEvents(map, events, pointing) ==
    LET hit == {i \in 1..Len(events) : InFootprint(pointing, events[i])}
        pix == {events[i] : i \in hit}
    IN  [px \in DOMAIN map \cup pix |->
            (IF px \in DOMAIN map THEN map[px] ELSE 0)
                + Cardinality({i \in hit : events[i] = px})]

\* the positions of the Crab Nebula relative to the pointing: one or two ON radii
\* away (the wobble offset is 0.4 deg) in a compass direction
CrabOffsets == {<<k * Unit(a)[1], k * Unit(a)[2]>> : a \in Compass, k \in 1..2}

Pointings == {<<0, 0>>, <<1, 2>>}

\* where an event of the file may lie: at the source, one step east of it, opposite
\* to the source, at the pointing, outside of the map
EventSites(p, c) ==
    {c, <<c[1] + 1, c[2]>>, <<2 * p[1] - c[1], 2 * p[2] - c[2]>>, p,
     <<p[1] + MapHalfWidth + 1, p[2]>>}

\* cell 25 has run: obs_magic = Observation.read(...); events_magic = obs_magic.events
InitExplore ==
    /\ run = [k \in 1..2 |-> [n_on |-> 0, n_off |-> 0, p |-> 1, q |-> 1, ts |-> NoTs]]
    /\ PipeIdle
    /\ \E p \in Pointings : \E o \in CrabOffsets :
           LET c == <<p[1] + o[1], p[2] + o[2]>>
           IN  \E n \in 0..MaxEvents : \E events \in [1..n -> EventSites(p, c)] :
                   nb0 = [cell |-> "map",
                          obs_magic |-> events,
                          events_magic |-> events,
                          magic_pointing_radec |-> p,
                          coordinates_crab |-> c,
                          counts |-> MapCreate,
                          on_region |-> NoRegion,
                          on_events |-> <<>>,
                          n_on |-> -1,
                          pointing_offset |-> -1,
                          off_region |-> NoRegion,
                          off_events |-> <<>>,
                          n_off |-> -1]

\* cell 37: counts = Map.create(skydir=magic_pointing_radec, ...);
\* counts.fill_events(events_magic)
CreateAndFillMap ==
    /\ nb0.cell = "map"
    /\ nb0' = [nb0 EXCEPT
                  !.counts = FillEvents(MapCreate, nb0.events_magic, nb0.magic_pointing_radec),
                  !.cell = "on_region"]
    /\ UNCHANGED <<run, pipeVars>>

\* cell 39: on_region = CircleSkyRegion(center=coordinates_crab, radius=0.2 deg);
\* counts.fill_events(events_magic) on the map of cell 37
OnRegionAndFillMap ==
    /\ nb0.cell = "on_region"
    /\ nb0' = [nb0 EXCEPT
                  !.on_region = CircleSkyRegion(nb0.coordinates_crab, RadiusOn),
                  !.counts = FillEvents(nb0.counts, nb0.events_magic, nb0.magic_pointing_radec),
                  !.cell = "n_on"]
    /\ UNCHANGED <<run, pipeVars>>

\* cell 41: on_events = events_magic.select_region(on_region); n_on = len(on_events.table)
CountOn ==
    /\ nb0.cell = "n_on"
    /\ LET on_events == SelectRegion(nb0.events_magic, nb0.on_region)
       IN  nb0' = [nb0 EXCEPT
                      !.on_events = on_events,
                      !.n_on = Len(on_events),
                      !.events_magic = EventsAfterSelect(nb0.events_magic, on_events),
                      !.cell = "off_region"]
    /\ UNCHANGED <<run, pipeVars>>

\* cells 43 and 44: pointing_offset, source_angle, off_region_angle,
\* off_region_centre, off_region
MakeOffRegion ==
    /\ nb0.cell = "off_region"
    /\ LET pointing_offset == Separation(nb0.magic_pointing_radec, nb0.coordinates_crab)
           source_angle == PositionAngle(nb0.magic_pointing_radec, nb0.coordinates_crab)
           off_region_angle == OffRegionAngle(source_angle)
           off_region_centre == DirectionalOffsetBy(nb0.magic_pointing_radec,
                                                    off_region_angle, pointing_offset)
       IN  nb0' = [nb0 EXCEPT
                      !.pointing_offset = pointing_offset,
                      !.off_region = CircleSkyRegion(off_region_centre, RadiusOff),
                      !.cell = "n_off"]
    /\ UNCHANGED <<run, pipeVars>>

\* cell 46: off_events = events_magic.select_region(off_region); n_off = len(off_events.table)
CountOff ==
    /\ nb0.cell = "n_off"
    /\ LET off_events == SelectRegion(nb0.events_magic, nb0.off_region)
       IN  nb0' = [nb0 EXCEPT
                      !.off_events = off_events,
                      !.n_off = Len(off_events),
                      !.events_magic = EventsAfterSelect(nb0.events_magic, off_events),
                      !.cell = "end"]
    /\ UNCHANGED <<run, pipeVars>>

NextExplore ==
    \/ CreateAndFillMap
    \/ OnRegionAndFillMap
    \/ CountOn
    \/ MakeOffRegion
    \/ CountOff

SpecExplore == InitExplore /\ [][NextExplore]_vars

Evaluated(k) == run[k].ts # NoTs

\* TS of evaluation i <= TS of evaluation j
TsLeq(i, j) == RatLeq(run[i].ts.num, run[i].ts.den, run[j].ts.num, run[j].ts.den)

\* |excess| of evaluation i < |excess| of evaluation j
ExcessLess(i, j) == AbsExcessQ(run[i]) * run[j].q < AbsExcessQ(run[j]) * run[i].q

\* C1 as stated: the test statistic is non-negative, and of any two inputs the one
\* with the larger |N_on - alpha N_off| never has the smaller test statistic.
C1_AsStated ==
    /\ \A k \in 1..2 : Evaluated(k) => run[k].ts.num >= run[k].ts.den
    /\ (Evaluated(1) /\ Evaluated(2) /\ ExcessLess(1, 2)) => TsLeq(1, 2)

\* C1 amended: the test statistic is non-negative, and of two inputs with the same
\* N_off and the same alpha whose excesses have the same sign, the one with the
\* larger |N_on - alpha N_off| never has the smaller test statistic.
C1_TsNonNegativeMonotoneSameSide ==
    /\ \A k \in 1..2 : Evaluated(k) => run[k].ts.num >= run[k].ts.den
    /\ ( /\ Evaluated(1) /\ Evaluated(2)
         /\ run[1].n_off = run[2].n_off
         /\ run[1].p = run[2].p /\ run[1].q = run[2].q
         /\ ExcessSign(run[1]) * ExcessSign(run[2]) >= 0
         /\ ExcessLess(1, 2) )
       => TsLeq(1, 2)

\* both evaluations done on the same side of alpha N_off, with different excess
\* and a strictly larger statistic for the larger excess
C1_Witness ==
    /\ Evaluated(1) /\ Evaluated(2)
    /\ run[1].n_off = run[2].n_off /\ run[1].n_off > 0
    /\ run[1].p = run[2].p /\ run[1].q = run[2].q
    /\ ExcessSign(run[1]) = -1 /\ ExcessSign(run[2]) = -1
    /\ ExcessLess(1, 2)
    /\ ~TsLeq(2, 1)
(***************************************************************************)
(* Notebook 1: claims                                                       *)
(***************************************************************************)
\* the arrays two reductions of one observation are compared on
SameReduction(a, b) ==
    /\ a.counts = b.counts
    /\ a.counts_off = b.counts_off
    /\ a.exposure = b.exposure
    /\ a.edisp = b.edisp

\* C4: reduction is idempotent: when a reduction cell is run a second time on the
\* same observations with the same template, makers and axes, every dataset it
\* appends has the ON counts, OFF counts, exposure and energy dispersion of the
\* dataset the first run produced for that observation.
C4_ReductionIdempotent ==
    \A inst \in InstSet :
        first_run[inst].again =>
            /\ Len(datasets_nb1[inst]) <= Len(first_run[inst].datasets)
            /\ \A k \in 1..Len(datasets_nb1[inst]) :
                   SameReduction(datasets_nb1[inst][k], first_run[inst].datasets[k])

\* the LST loop, which reuses the MAGIC template, has run twice to its end over
\* observations that have events
C4_Witness ==
    /\ pc.nb = 1 /\ pc.inst = "lst" /\ pc.cell = "reduce" /\ pc.at = "done"
    /\ first_run["lst"].again
    /\ Len(datasets_nb1["lst"]) = Len(observations["lst"])
    /\ Len(datasets_nb1["lst"]) >= 2
    /\ \E i \in 1..Len(datasets_nb1["lst"][2].counts) : datasets_nb1["lst"][2].counts[i] > 0

\* the reduction cell of pc.inst has ended, normally or by an exception
ReduceCellEnded == pc.nb = 1 /\ pc.cell = "reduce" /\ pc.at \in {"done", "raised"}

\* C6: a failure while reducing one observation does not terminate the batch: when
\* the reduction cell has ended, every observation other than the failing one has
\* been reduced and appended to the Datasets collection.
C6_BatchSurvivesFailure ==
    ReduceCellEnded =>
        \A k \in 1..Len(observations[pc.inst]) :
            (pc.at = "raised" /\ k = pc.i)
            \/ \E m \in 1..Len(datasets_nb1[pc.inst]) :
                   datasets_nb1[pc.inst][m].name = ToString(observations[pc.inst][k].obs_id)

(***************************************************************************)
(* Notebook 2: claims                                                       *)
(***************************************************************************)
\* two states of a model object that differ at most in the amplitude
SameShape(m1, m2) ==
    /\ m1.alpha.value = m2.alpha.value
    /\ m1.beta.value = m2.beta.value
    /\ m1.reference.value = m2.reference.value

\* the predicted counts of d under m2 are those under m1 times the ratio of the
\* amplitudes
Scaled(d, m1, m2) ==
    \A i \in 1..Len(d.counts) :
        NpredSignal(d, m2)[i] * m1.amplitude.value
            = NpredSignal(d, m1)[i] * m2.amplitude.value

\* C3: forward-model linearity: over any step that leaves the datasets and every
\* parameter other than the amplitude unchanged (the cell that sets the amplitude
\* to 5e-11, an optimizer step that moves the amplitude alone), the predicted
\* signal counts of every reconstructed-energy bin of every dataset are multiplied
\* by the factor the amplitude was multiplied by.
C3_NpredLinearInAmplitude ==
    [][ datasets_nb2' = datasets_nb2 =>
            \A id \in DOMAIN models \cap DOMAIN models' :
                SameShape(models[id], models'[id]) =>
                    \A k \in 1..Len(datasets_nb2["lst"]) :
                        Scaled(datasets_nb2["lst"][k], models[id], models'[id]) ]_vars

\* the amplitude has been set from 5e-12 to 5e-11 and a dataset predicts counts
C3_Witness ==
    /\ pc = Pc(2, "lst", "fit", 0, "cell")
    /\ models["CrabNebula"].amplitude.value = 10 * SpectralModelNb2.amplitude.value
    /\ SameShape(models["CrabNebula"], SpectralModelNb2)
    /\ \E k \in 1..Len(datasets_nb2["lst"]) :
           \E i \in 1..Len(datasets_nb2["lst"][k].counts) :
               NpredSignal(datasets_nb2["lst"][k], models["CrabNebula"])[i] > 0

\* changing the ON or OFF counts of a masked bin of d leaves the statistic as it is
MaskedBinsInert(d, m) ==
    \A i \in 1..Len(d.counts) :
        ~Mask(d)[i] =>
            \A c \in 0..MaxCount :
                /\ StatSum([d EXCEPT !.counts[i] = c], m) = StatSum(d, m)
                /\ StatSum([d EXCEPT !.counts_off[i] = c], m) = StatSum(d, m)

\* the statement that applies a mask leaves counts, exposure and dispersion alone
MaskStepKeepsData ==
    /\ (pc.nb = 1 /\ pc.at = "safe" /\ pc'.at = "append") =>
           SameReduction(dataset', dataset)
    /\ (pc.nb = 2 /\ pc.at = "mask" /\ pc' # pc) =>
           /\ SameReduction(loaded', loaded)
           /\ SameReduction(datasets_nb2'[pc.inst][Len(datasets_nb2'[pc.inst])], loaded)

\* C9: masked bins are excluded from fitting but retained in the data: the safe
\* mask maker and the mask_fit assignment leave the ON counts, OFF counts, exposure
\* and energy dispersion of the dataset unchanged, and for every loaded dataset and
\* every model the statistic is the same whatever the counts of a masked bin are.
C9_MaskedBinsKeptAndInert ==
    /\ [][MaskStepKeepsData]_vars
    /\ [](\A inst \in InstSet : \A k \in 1..Len(datasets_nb2[inst]) :
              \A id \in DOMAIN models :
                  MaskedBinsInert(datasets_nb2[inst][k], models[id]))

\* bin i of d is shut out by the safe mask alone and holds events
SafeMaskedOnly(d, i) == ~d.mask_safe[i] /\ d.mask_fit[i] /\ d.counts[i] > 0

\* bin i of d is shut out by the fit range alone and holds events
FitMaskedOnly(d, i) == d.mask_safe[i] /\ ~d.mask_fit[i] /\ d.counts[i] > 0

\* the model exists, a H.E.S.S. dataset has events in a bin the safe mask shuts out,
\* an LST dataset has events in a bin the fit range shuts out and has open bins
C9_Witness ==
    /\ "CrabNebula" \in DOMAIN models
    /\ \E k \in 1..Len(datasets_nb2["hess"]) :
           \E i \in 1..Len(datasets_nb2["hess"][k].counts) :
               SafeMaskedOnly(datasets_nb2["hess"][k], i)
    /\ \E k \in 1..Len(datasets_nb2["lst"]) :
           LET d == datasets_nb2["lst"][k]
           IN  /\ \E i \in 1..Len(d.counts) : FitMaskedOnly(d, i)
               /\ \E i \in 1..Len(d.counts) : Mask(d)[i]

(***************************************************************************)
(* Notebook 3: claims                                                       *)
(***************************************************************************)
\* a step of a running fit leaves the value of every frozen parameter as it was
FrozenKept ==
    fit.active =>
        \A id \in DOMAIN models \cap DOMAIN models' :
            \A name \in DOMAIN models[id] :
                models[id][name].frozen =>
                    models'[id][name].value = models[id][name].value

\* the background model of the n-th fit
BkgOfFit(n) == CopyId("bkg_model", n)

\* the n-th Fit Result reports for the background the values it was built with
BkgAsBefore(n) ==
    /\ models[BkgOfFit(n)].norm.value = SimulatedModels.bkg_model.norm.value
    /\ models[BkgOfFit(n)].tilt.value = SimulatedModels.bkg_model.tilt.value
    /\ Len(results) >= n =>
           /\ results[n].parameters[<<BkgOfFit(n), "norm">>]
                  = SimulatedModels.bkg_model.norm.value
           /\ results[n].parameters[<<BkgOfFit(n), "tilt">>]
                  = SimulatedModels.bkg_model.tilt.value

\* C10: a fit never changes the value of a parameter whose frozen flag is set: no
\* step of a running fit changes a frozen parameter, and the norm and tilt frozen on
\* the background copy of either fit of notebook 3 have, during the fit, after it
\* and in its Fit Result, the values they had when the copy was made.
C10_FrozenParametersKept ==
    /\ [][FrozenKept]_vars
    /\ [](\A n \in 1..2 : BkgOfFit(n) \in DOMAIN models => BkgAsBefore(n))

\* the second fit has returned after moving a free parameter, the first one too
C10_Witness ==
    /\ pc = Pc(3, "none", "end", 0, "end")
    /\ Len(results) = 2
    /\ results[1].nfev > 0 /\ results[2].nfev > 0
    /\ \E p \in FreeParameters(models, FitModels) :
           models[p[1]][p[2]].value # models[Originals(2)[
               CHOOSE k \in 1..Len(Originals(2)) : CopyId(Originals(2)[k], 2) = p[1]]][p[2]].value
    /\ models[BkgOfFit(2)].norm.frozen /\ models[BkgOfFit(2)].tilt.frozen

(***************************************************************************)
(* Notebook 2: claims on the flux points                                    *)
(***************************************************************************)
\* the shape parameters of the log-parabola
ShapeParameters == {"alpha", "beta", "reference"}

\* the source whose flux points are estimated
Crab == SourceModel(datasets_nb2["lst"], "CrabNebula")

\* the values the broad-band fit returned
BestFit == results[Len(results)].parameters

\* C14: flux-point estimation does not alter the shape parameters it takes as
\* input: while FluxPointsEstimator.run is running and after it has returned, alpha,
\* beta and reference of the model have the values the broad-band fit returned, and
\* every flux point comes from a re-fit of the amplitude.
C14_ShapeKeptByFluxPoints ==
    (fpe.active \/ flux_points_lst # <<>>) =>
        /\ \A name \in ShapeParameters :
               models[Crab][name].value = BestFit[<<Crab, name>>]
        /\ \A b \in DOMAIN fpe.points : fpe.points[b].parameter = "amplitude"
        /\ \A b \in DOMAIN flux_points_lst : flux_points_lst[b].parameter = "amplitude"

\* the estimator has returned a flux point for every bin after a fit that moved a
\* shape parameter, and it has left the amplitude away from the best fit
C14_Witness ==
    /\ pc = Pc(2, "none", "end", 0, "end")
    /\ DOMAIN flux_points_lst = 1..(Len(FluxPointEdges(EnergyAxis("lst"))) - 1)
    /\ Len(FluxPointEdges(EnergyAxis("lst"))) >= 3
    /\ BestFit[<<Crab, "alpha">>] # SpectralModelNb2.alpha.value
    /\ models[Crab].amplitude.value # BestFit[<<Crab, "amplitude">>]

(***************************************************************************)
(* Notebook 2: claims on the shared model                                   *)
(***************************************************************************)
\* the parameter values dataset d evaluates its forward model with
ValuesSeenBy(d) ==
    [n \in 1..Len(d.models) |->
        [name \in DOMAIN models[d.models[n]] |-> models[d.models[n]][name].value]]

\* C17: a model assigned to a collection of datasets is shared by reference: at
\* every point after the assignment (after the amplitude is set by hand through
\* datasets_lst.models[0], after every step of the fit) all datasets of the
\* collection see the same parameter values, and once a fit has returned the
\* object bound to spectral_model holds the values of the Fit Result.
C17_ModelSharedByReference ==
    /\ \A k, l \in 1..Len(datasets_nb2["lst"]) :
           ValuesSeenBy(datasets_nb2["lst"][k]) = ValuesSeenBy(datasets_nb2["lst"][l])
    /\ Len(results) >= 1 =>
           \A p \in DOMAIN BestFit :
               models[SpectralModelObject][p[2]].value = BestFit[p]

\* the fit over two or more datasets has returned after moving the amplitude away
\* from the value set by hand and alpha away from the value the model was built with
C17_Witness ==
    /\ pc = Pc(2, "lst", "fpe", 0, "cell")
    /\ Len(datasets_nb2["lst"]) >= 2
    /\ Len(results) = 1
    /\ models[SpectralModelObject].amplitude.value \notin {1, 10}
    /\ models[SpectralModelObject].alpha.value # SpectralModelNb2.alpha.value
    /\ ValuesSeenBy(datasets_nb2["lst"][2])[1].amplitude
           = models[SpectralModelObject].amplitude.value

(***************************************************************************)
(* Notebook 2: claims on who writes the parameters                          *)
(***************************************************************************)
\* the parameters whose record differs between the heaps ms1 and ms2
Written(ms1, ms2) ==
    {p \in ParametersOf(ms1, DOMAIN ms1 \cap DOMAIN ms2) : ms1[p[1]][p[2]] # ms2[p[1]][p[2]]}

\* a step that changes the parameters while fit.run is running is a step of its
\* optimizer on a free parameter of the fitted models
WrittenByFit ==
    (fit.active /\ models' # models) =>
        /\ DOMAIN models' = DOMAIN models
        /\ fit'.active /\ fit'.iter = fit.iter + 1
        /\ Written(models, models') \subseteq FreeParameters(models, FitModels)

\* a step that changes the parameters while the flux point estimator is running
\* is one of its re-fits, on the parameters it re-fits
WrittenByFpe ==
    (fpe.active /\ models' # models) =>
        /\ DOMAIN models' = DOMAIN models
        /\ fpe'.active /\ fpe'.todo # fpe.todo
        /\ Written(models, models') \subseteq FpeParameters(models, fpe.model)

\* fit.run and the estimator's re-fits are never running together, and one is
\* only entered while the other is not running
OneFitAtATime ==
    /\ ~(fit'.active /\ fpe'.active)
    /\ (~fit.active /\ fit'.active) => (~fpe.active /\ models' = models)
    /\ (~fpe.active /\ fpe'.active) => (~fit.active /\ models' = models)

OnStageDone(d, o) ==
    /\ d.counts = OnEvents(o.kind, Len(d.counts))
    /\ d.exposure = Exposure(o.kind, Len(d.exposure))
    /\ d.counts_off = <<>> /\ d.acceptance_off = 0

\* the OFF counts of d are those of observation o
OffStageDone(d, o) ==
    /\ d.counts = OnEvents(o.kind, Len(d.counts))
    /\ d.exposure = Exposure(o.kind, Len(d.exposure))
    /\ d.counts_off = OffEvents(o.kind, Len(d.counts)) /\ d.acceptance_off >= 1

\* the safe mask of d is the one the effective area of d gives, where the
\* reduction has a safe mask maker; no bin is masked where it has none
SafeStageDone(d, inst) ==
    d.mask_safe = IF inst = "hess"
                  THEN [i \in 1..Len(d.counts) |->
                           EnergyAxis(inst)[i] >=
                               AeffMaxEnergy(d.exposure, EnergyAxisTrue(inst))]
                  ELSE AllTrue(Len(d.counts))

\* the loop variable has passed the stages before the statement about to run
LoopVariableStaged ==
    (pc.nb = 1 /\ pc.cell = "reduce" /\ pc.at \in {"bkg", "safe", "append"}) =>
        LET o == observations[pc.inst][pc.i]
        IN  /\ pc.at = "bkg" => OnStageDone(dataset, o)
            /\ pc.at = "safe" =>
                   OffStageDone(dataset, o) /\ dataset.mask_safe = AllTrue(Len(dataset.counts))
            /\ pc.at = "append" => OffStageDone(dataset, o) /\ SafeStageDone(dataset, pc.inst)

\* every dataset appended and every file written holds a fully reduced dataset
KeptAreReduced ==
    /\ \A inst \in InstSet : \A k \in 1..Len(datasets_nb1[inst]) :
           /\ OffStageDone(datasets_nb1[inst][k], observations[inst][k])
           /\ SafeStageDone(datasets_nb1[inst][k], inst)
    /\ \A path \in DOMAIN files :
           /\ files[path].counts_off # <<>> /\ files[path].acceptance_off >= 1
           /\ SafeStageDone(files[path], path[1])

\* fit.run is running on datasets that all have a model
ModelBeforeFit ==
    fit.active => \A k \in 1..Len(FitDatasets) : Len(FitDatasets[k].models) >= 1

\* the estimator runs after a fit on its datasets has returned, and it is entered
\* with the model those datasets share holding the values of that Fit Result
FitBeforeFluxPoints ==
    fpe.active =>
        /\ ~fit.active /\ Len(results) >= 1
        /\ \A k \in 1..Len(datasets_nb2["lst"]) :
               datasets_nb2["lst"][k].models = <<fpe.model>>
        /\ fpe.points = <<>> =>
               \A p \in DOMAIN BestFit : models[p[1]][p[2]].value = BestFit[p]

InsideFitRange(pt) ==
    /\ EMin("lst") <= pt.e_min /\ pt.e_max <= EMax("lst")
    /\ pt.bins # {}
    /\ \A k \in 1..Len(datasets_nb2["lst"]) : \A i \in pt.bins :
           datasets_nb2["lst"][k].mask_fit[i]

\* C22: every flux point bin made from edges[4:-2] of the LST axis lies inside
\* the fit range [e_min_lst, e_max_lst], that is, consists only of bins that are
\* not masked by mask_fit.
C22_FluxBinsInsideFitRange ==
    /\ \A b \in DOMAIN fpe.points : InsideFitRange(fpe.points[b])
    /\ \A b \in DOMAIN flux_points_lst : InsideFitRange(flux_points_lst[b])

(***************************************************************************)
(* Notebook 0: claims on the regions, the event list and the sky map        *)
(***************************************************************************)
OffRegionMade == nb0.cell \in {"n_off", "end"}

\* the point opposite to c with respect to p
Mirrored(p, c) == <<2 * p[1] - c[1], 2 * p[2] - c[2]>>

\* C23: the OFF region is the ON region mirrored with respect to the pointing:
\* it has the radius of the ON region, its centre is as far from the pointing as
\* the ON centre, at the position angle of the ON centre plus 180 degrees, which
\* is the point opposite to the ON centre.
C23_OffRegionMirrorsOn ==
    OffRegionMade =>
        LET p == nb0.magic_pointing_radec
            on == nb0.on_region
            off == nb0.off_region
        IN  /\ off.radius = on.radius
            /\ Separation(p, off.center) = Separation(p, on.center)
            /\ PositionAngle(p, off.center) = (PositionAngle(p, on.center) + 180) % 360
            /\ off.center = Mirrored(p, on.center)

\* the OFF region has been made for a source two radii away from a pointing off
\* the origin, in a diagonal direction whose angle plus 180 degrees passes 360
C23_Witness ==
    /\ OffRegionMade
    /\ nb0.magic_pointing_radec # <<0, 0>>
    /\ nb0.pointing_offset = 8
    /\ PositionAngle(nb0.magic_pointing_radec, nb0.coordinates_crab) = 225
    /\ nb0.off_region.center # nb0.on_region.center

\* every element of the list sub is an element of the list events
SubsetOf(sub, events) ==
    \A pos \in {sub[i] : i \in 1..Len(sub)} :
        Cardinality({i \in 1..Len(sub) : sub[i] = pos})
            <= Cardinality({i \in 1..Len(events) : events[i] = pos})

\* the number of events of the file inside the region
CountInside(region) ==
    Cardinality({i \in 1..Len(nb0.obs_magic) : Contains(region, nb0.obs_magic[i])})

\* C24: the event list is only read: events_magic is the list read from the file
\* after every map fill and every selection, every selection is a part of it, and
\* N_on and N_off are both counted from that full list.
C24_EventsReadOnly ==
    /\ nb0.events_magic = nb0.obs_magic
    /\ SubsetOf(nb0.on_events, nb0.obs_magic)
    /\ SubsetOf(nb0.off_events, nb0.obs_magic)
    /\ nb0.n_on # -1 => nb0.n_on = CountInside(nb0.on_region)
    /\ nb0.n_off # -1 => nb0.n_off = CountInside(nb0.off_region)

\* both selections have been made, the ON one first; each holds an event that
\* the other does not, and one event of the file is in neither
C24_Witness ==
    /\ nb0.cell = "end"
    /\ Len(nb0.obs_magic) >= 3
    /\ nb0.n_on >= 1 /\ nb0.n_off >= 1
    /\ nb0.n_on + nb0.n_off < Len(nb0.obs_magic)
    /\ \E i \in 1..Len(nb0.off_events) : ~Contains(nb0.on_region, nb0.off_events[i])

RECURSIVE SumOver(_, _)
SumOver(map, pixels) ==
    IF pixels = {} THEN 0
    ELSE LET px == CHOOSE px \in pixels : TRUE
         IN  map[px] + SumOver(map, pixels \ {px})

\* C25: every event is counted exactly once in the MAGIC sky map: once the map
\* has been filled, after whichever of the cells that use it, the sum over its
\* pixels is the number of events of events_magic inside the map.
C25_EventsCountedOnce ==
    nb0.cell # "map" =>
        SumOver(nb0.counts, DOMAIN nb0.counts)
            = Cardinality({i \in 1..Len(nb0.events_magic) :
                              InFootprint(nb0.magic_pointing_radec, nb0.events_magic[i])})

(***************************************************************************)
(* Notebook 1: the pairing of observations, datasets and files              *)
(***************************************************************************)
\* the reduction loop of inst has run to its end and its collection is still in
\* the kernel
LoopEnded(inst) ==
    /\ pc.nb = 1 /\ pc.inst = inst
    /\ (pc.cell = "reduce" /\ pc.at = "done") \/ pc.cell = "write"

\* d holds the counts and the IRFs of observation o
ReducedFrom(d, o) ==
    /\ d.counts = OnEvents(o.kind, Len(d.counts))
    /\ d.counts_off = OffEvents(o.kind, Len(d.counts))
    /\ d.exposure = Exposure(o.kind, Len(d.exposure))

\* after the loop: one dataset per observation, in the order of the observations,
\* named with the obs_id of its observation and reduced from it
OnePerObservation ==
    \A inst \in InstSet :
        LoopEnded(inst) =>
            /\ Len(datasets_nb1[inst]) = Len(observations[inst])
            /\ \A k \in 1..Len(observations[inst]) :
                   /\ datasets_nb1[inst][k].name = ToString(observations[inst][k].obs_id)
                   /\ ReducedFrom(datasets_nb1[inst][k], observations[inst][k])

\* every file pha_obs_<obs_id>.fits holds the dataset reduced from the observation
\* with that obs_id
FilesOfTheirObservation ==
    \A path \in DOMAIN files :
        \E k \in 1..Len(observations[path[1]]) :
            /\ path = PhaPath(path[1], observations[path[1]][k].obs_id)
            /\ ReducedFrom(files[path], observations[path[1]][k])

TemplateUntouched ==
    dataset_empty # NoDataset =>
        /\ dataset_empty \in {SpectrumDatasetCreate("hess"), SpectrumDatasetCreate("magic")}
        /\ (pc.nb = 1 /\ pc.cell \in {"reduce", "write"}) =>
               dataset_empty = SpectrumDatasetCreate(ConfigOf(pc.inst))

\* the ON counts of d are the events of observation o and no others
OwnEventsOnly(d, o) == d.counts = OnEvents(o.kind, Len(d.counts))

\* every dataset of the kernel, the loop variable included, holds the events of
\* its own observation only
NoForeignEvents ==
    /\ \A inst \in InstSet : \A k \in 1..Len(datasets_nb1[inst]) :
           OwnEventsOnly(datasets_nb1[inst][k], observations[inst][k])
    /\ (pc.nb = 1 /\ pc.cell = "reduce" /\ pc.at \in {"bkg", "safe", "append"}) =>
           OwnEventsOnly(dataset, observations[pc.inst][pc.i])

\* C27: reducing an observation never modifies the template: dataset_empty has
\* zero counts and the configured axes before and after every iteration of every
\* loop, each observation is reduced into its own copy, and the counts of a
\* dataset hold no events of another observation, also in the LST loop, which
\* reuses the template and the makers of the MAGIC loop.
C27_TemplateNeverFilled == TemplateUntouched /\ NoForeignEvents

\* the LST loop has ended after the MAGIC loop used the same template; its first
\* two observations are of different kinds and have events
C27_Witness ==
    /\ pc.nb = 1 /\ pc.inst = "lst" /\ pc.cell = "write"
    /\ Len(datasets_nb1["lst"]) >= 2
    /\ observations["lst"][1].kind # observations["lst"][2].kind
    /\ \E i \in 1..Len(datasets_nb1["lst"][1].counts) : datasets_nb1["lst"][1].counts[i] > 0
    /\ \E path \in DOMAIN files : path[1] = "magic"
    /\ dataset_empty.counts = Zeros(NBin(EnergyAxis("magic")))

(***************************************************************************)
(* Notebook 3: the simulated models                                         *)
(***************************************************************************)
\* model_1, model_2, model_3 and bkg_model
SimulatedIds == {"model_1", "model_2", "model_3", "bkg_model"}

\* C28: fitting never changes the simulated models: the fits of notebook 3 run on
\* copies, so from their construction on, through both fits, every parameter of
\* model_1, model_2, model_3 and bkg_model has the value and the frozen flag it
\* was constructed and simulated with; freezing norm and tilt of a copied
\* background leaves those of bkg_model free.
C28_SimulatedModelsKept ==
    models # <<>> =>
        \A id \in SimulatedIds :
            \A name \in DOMAIN SimulatedModels[id] :
                /\ models[id][name].value = SimulatedModels[id][name].value
                /\ models[id][name].frozen = SimulatedModels[id][name].frozen

\* both fits have returned; the first moved the amplitude of its copy of the point
\* source, the second a parameter of one of its copies, and the background copies
\* are frozen while bkg_model is not
C28_Witness ==
    /\ pc = Pc(3, "none", "end", 0, "end")
    /\ Len(results) = 2
    /\ models[CopyId("model_1", 1)].amplitude.value # models["model_1"].amplitude.value
    /\ \E id \in {"model_1", "model_2", "model_3"} : \E name \in DOMAIN models[id] :
           models[CopyId(id, 2)][name].value # models[id][name].value
    /\ models[CopyId("bkg_model", 1)].norm.frozen
    /\ models[CopyId("bkg_model", 2)].tilt.frozen
    /\ ~models["bkg_model"].norm.frozen

\* the keyword arguments written in the constructor call of spectral_model_1, with
\* the keyword the amplitude is meant by
WrittenForModel1 == [amplitude |-> 5, index |-> 15, reference |-> 1000, lambda_ |-> 10]

\* C30: the point source of the simulation has the parameter values written in
\* its constructor call: amplitude 5e-12 TeV-1 cm-2 s-1 and not the default of
\* the class, index 1.5, reference 1 TeV, lambda_ 1/(3 TeV); no keyword argument
\* is dropped.
C30_PointSourceAsWritten ==
    "model_1" \in DOMAIN models =>
        \A name \in DOMAIN WrittenForModel1 :
            models["model_1"][name].value = WrittenForModel1[name]
====
